---------------------------- MODULE Spec2Model ----------------------------
(***************************************************************************)
(* Verification model of the Venice API client snippets and card scripts.  *)
(*                                                                         *)
(*   SpecRetry  : callVeniceAPI, the retry / backoff wrapper               *)
(*   SpecStream : streamChatCompletion, the buffered SSE decoder           *)
(*   SpecConv   : VeniceConversation                                       *)
(*   SpecImage  : generateStylizedImage, both variants                     *)
(*   SpecCard   : handleImageUpload and createCard, both variants          *)
(*   SpecOrch   : VeniceOrchestrator.analyzeWithMultipleModels             *)
(*   SpecDec    : the decoders of generateResponse and VeniceChat          *)
(*   SpecQueue  : VeniceAPIClient                                          *)
(***************************************************************************)
EXTENDS Integers, Sequences, FiniteSets, TLC

VARIABLES
    \* ---- callVeniceAPI ----
    rPc,          \* position of the call: start, fetch, wait429, waitCatch, returned, thrown
    retryCount,   \* let retryCount
    requests,     \* number of fetch() calls issued so far
    seen,         \* outcomes of the fetches so far, in order
    waitLog,      \* the setTimeout waits scheduled so far, in order
    rResult,      \* value the call returned
    rErr,         \* error the call raised
    \* ---- streamChatCompletion ----
    sPc,          \* start, reading, done (returned on [DONE]), ended (stream exhausted),
                  \* failed (an error reached the caller)
    stream,       \* the characters the server sends, in order
    pos,          \* number of characters delivered to the reader so far
    buffer,       \* let buffer
    emitted,      \* arguments of the onChunk calls so far, in order
    readPending,  \* a reader.read() is outstanding
    completeCalls,\* number of onComplete calls
    released,     \* number of reader.releaseLock() calls
    examined,     \* number of lines the for loop has taken up
    skipped,      \* complete lines of the last chunk left behind by the return
    splitMid,     \* some chunk ended in the middle of a line
    onChunkThrows,\* the caller's onChunk callback throws when it is called
    caught,       \* number of errors thrown by onChunk that the per-frame catch took
    \* ---- VeniceConversation ----
    apiKey,       \* this.apiKey
    model,        \* this.model
    messages,     \* this.messages
    maxHistory,   \* this.maxHistory
    nextSeq,      \* sequence number the next message pushed will get
    clears,       \* number of clear() calls so far
    clearedAt,    \* sequence number of the last message pushed before the last clear()
    seeded,       \* number of addMessage calls made before the operations observed
    sendPc,       \* per send call: idle, inflight, returned, thrown
    sendReq,      \* per send call: the messages its request body carries
    sendRet,      \* per send call: the value it returned
    \* ---- generateStylizedImage ----
    imgResp,      \* the response of the image edit request
    imgOut,       \* what generateStylizedImage of the card script in part_000 did with it
    imgOutScript, \* what generateStylizedImage of src/script.js did with it
    \* ---- card scripts: handleImageUpload and createCard ----
    variant,      \* which script the page runs: "script" (src/script.js) or "part000"
    apiKeyInput,  \* value of the #apiKeyInput field
    userSrc,      \* userImage.src: 0 when unset, else the number of the upload
    upPending,    \* uploads whose FileReader has not fired onload yet
    uploads,      \* number of files chosen so far
    userLoading,  \* upload whose userImage.onload is still to fire, 0 when none
    thumbSrc,     \* the last upload that finished loading: thumbImg.src in
                  \* src/script.js, the picture userImage holds in part_000
    btnDisabled,  \* btn.disabled
    cPc,          \* createCard: idle, greeting, edit, loading
    clicks,       \* clicks on the generate button so far
    cardRequests, \* the fetch calls createCard has issued, in order
    alerts,       \* the alert() calls, in order
    greetingText, \* let greetingText
    editSrc,      \* the userImage.src handed to generateStylizedImage
    genResult,    \* what generateStylizedImage gave the current run
    card,         \* what the canvas shows
    genImage,     \* generatedImage: none, loading, loaded, failed
    \* ---- VeniceOrchestrator.analyzeWithMultipleModels ----
    oPc,          \* idle, waiting (inside await Promise.all), done, failed
    oSent,        \* the models of the requests issued, in order
    oSlot,        \* per index of models: the promise of getResponse
    oValues,      \* the values array of Promise.all
    oOrder,       \* the indices in the order their promises settled
    oResult,      \* what analyzeWithMultipleModels returned
    \* ---- the decoders of generateResponse and VeniceChat.sendMessage ----
    uWhich,       \* "generateResponse" or "sendMessage"
    uPc,          \* start, reading, ended, failed
    uStream,      \* the characters the server sends
    uPos,         \* how many of them have been delivered
    uText,        \* responseDiv.textContent / the assistant message content
    uStatus,      \* statusBadge.textContent (generateResponse)
    uSeenDone,    \* a line data: [DONE] has been met
    uLate,        \* payloads handed to JSON.parse after [DONE] was met
    \* ---- VeniceAPIClient ----
    requestQueue, \* this.requestQueue: the requests waiting, by number
    processing,   \* this.processing
    queued,       \* number of queueRequest calls so far
    inFlight,     \* the requests whose makeRequest call has not settled
    started,      \* the requests in the order makeRequest was called for them
    timers,       \* the setTimeout callbacks still to fire, by completion number
    completions,  \* number of makeRequest calls that have settled
    settled       \* per request: how its promise was settled, and how often

retryVars == <<rPc, retryCount, requests, seen, waitLog, rResult, rErr>>

streamVars == <<sPc, stream, pos, buffer, emitted, readPending, completeCalls,
                released, examined, skipped, splitMid, onChunkThrows, caught>>

convVars == <<apiKey, model, messages, maxHistory, nextSeq, clears, clearedAt, seeded,
              sendPc, sendReq, sendRet>>

imageVars == <<imgResp, imgOut, imgOutScript>>

cardVars == <<variant, apiKeyInput, userSrc, upPending, uploads, userLoading, thumbSrc,
              btnDisabled, cPc, clicks, cardRequests, alerts, greetingText, editSrc,
              genResult, card, genImage>>

orchVars == <<oPc, oSent, oSlot, oValues, oOrder, oResult>>

decVars == <<uWhich, uPc, uStream, uPos, uText, uStatus, uSeenDone, uLate>>

queueVars == <<requestQueue, processing, queued, inFlight, started, timers, completions,
               settled>>

vars == <<rPc, retryCount, requests, seen, waitLog, rResult, rErr,
          sPc, stream, pos, buffer, emitted, readPending, completeCalls,
          released, examined, skipped, splitMid, onChunkThrows, caught,
          apiKey, model, messages, maxHistory, nextSeq, clears, clearedAt, seeded,
          sendPc, sendReq, sendRet,
          imgResp, imgOut, imgOutScript,
          variant, apiKeyInput, userSrc, upPending, uploads, userLoading, thumbSrc,
          btnDisabled, cPc, clicks, cardRequests, alerts, greetingText, editSrc,
          genResult, card, genImage,
          oPc, oSent, oSlot, oValues, oOrder, oResult,
          uWhich, uPc, uStream, uPos, uText, uStatus, uSeenDone, uLate,
          requestQueue, processing, queued, inFlight, started, timers, completions,
          settled>>

Min(a, b) == IF a < b THEN a ELSE b

RECURSIVE Pow2(_)
Pow2(n) == IF n = 0 THEN 1 ELSE 2 * Pow2(n - 1)

\* the decoder before streamChatCompletion is called on any stream
StreamIdle ==
    /\ sPc = "start"
    /\ stream = <<>>
    /\ pos = 0
    /\ buffer = <<>>
    /\ emitted = <<>>
    /\ readPending = FALSE
    /\ completeCalls = 0
    /\ released = 0
    /\ examined = 0
    /\ skipped = 0
    /\ splitMid = FALSE
    /\ onChunkThrows = FALSE
    /\ caught = 0

MaxSends == 2
Calls == 1..MaxSends

\* this.maxHistory = 20
MaxHistoryValue == 20

\* new VeniceConversation('your-api-key'): the state the constructor leaves
ConvIdle ==
    /\ apiKey = "your-api-key"
    /\ model = "venice-uncensored"
    /\ messages = <<>>
    /\ maxHistory = MaxHistoryValue
    /\ nextSeq = 1
    /\ clears = 0
    /\ clearedAt = 0
    /\ seeded = 0
    /\ sendPc = [k \in Calls |-> "idle"]
    /\ sendReq = [k \in Calls |-> <<>>]
    /\ sendRet = [k \in Calls |-> "none"]

\* a field that is missing from a JSON body, or a header that is not sent
Absent == "absent"

Pending == [kind |-> "pending", ref |-> <<>>]

\* no image edit response has been handled
ImageIdle ==
    /\ imgResp = [ok |-> FALSE]
    /\ imgOut = Pending
    /\ imgOutScript = Pending

NoCard == [gen |-> <<>>, thumb |-> 0, greeting |-> "none"]

\* the page of src/script.js as loaded, nothing typed, chosen or clicked
CardIdle ==
    /\ variant = "script"
    /\ apiKeyInput = ""
    /\ userSrc = 0
    /\ upPending = {}
    /\ uploads = 0
    /\ userLoading = 0
    /\ thumbSrc = 0
    /\ btnDisabled = FALSE
    /\ cPc = "idle"
    /\ clicks = 0
    /\ cardRequests = <<>>
    /\ alerts = <<>>
    /\ greetingText = "none"
    /\ editSrc = 0
    /\ genResult = Pending
    /\ card = NoCard
    /\ genImage = "none"

\* const models of analyzeWithMultipleModels
models == <<"venice-uncensored", "llama-3.3-70b", "deepseek-v3">>

ModelIdx == 1..Len(models)

NoResponse == [for |-> "none", text |-> "none"]

PendingPromise == [st |-> "pending", resp |-> NoResponse]

\* an orchestrator on which analyzeWithMultipleModels has not been called
OrchIdle ==
    /\ oPc = "idle"
    /\ oSent = <<>>
    /\ oSlot = [i \in ModelIdx |-> PendingPromise]
    /\ oValues = [i \in ModelIdx |-> NoResponse]
    /\ oOrder = <<>>
    /\ oResult = <<>>

\* generateResponse before it is called
DecIdle ==
    /\ uWhich = "generateResponse"
    /\ uPc = "start"
    /\ uStream = <<>>
    /\ uPos = 0
    /\ uText = <<>>
    /\ uStatus = "Ready"
    /\ uSeenDone = FALSE
    /\ uLate = 0

MaxRequests == 4

RequestIds == 1..MaxRequests

Unsettled == [n |-> 0, of |-> 0, kind |-> "none"]

\* new VeniceAPIClient(apiKey)
QueueIdle ==
    /\ requestQueue = <<>>
    /\ processing = FALSE
    /\ queued = 0
    /\ inFlight = {}
    /\ started = <<>>
    /\ timers = {}
    /\ completions = 0
    /\ settled = [r \in RequestIds |-> Unsettled]

(***************************************************************************)
(* callVeniceAPI                                                           *)
(***************************************************************************)

maxRetries == 3

NoHint == -1
\* values of the x-ratelimit-reset-requests header, as ms until the reset
ResetHints == {NoHint, 7000, 30000}

NoValue == "none"
Undefined == "undefined"
NoErr == [type |-> "none", status |-> 0, msg |-> "-"]

\* what one fetch() can produce
NetworkFailure == [status |-> 0, body |-> "-", hint |-> NoHint]
OkResponses == [status : {200}, body : {"b1", "b2", "unparseable"}, hint : {NoHint}]
RateLimitResponses == [status : {429}, body : {"m1", "unparseable"}, hint : ResetHints]
AuthResponses == [status : {401}, body : {"m1", "unparseable"}, hint : {NoHint}]
OtherErrorResponses == [status : {500, 503}, body : {"m1", "noerror", "unparseable"}, hint : {NoHint}]
Responses == OkResponses \cup RateLimitResponses \cup AuthResponses \cup OtherErrorResponses

ResponseOk(resp) == resp.status >= 200 /\ resp.status <= 299

IsRateLimited(resp) == resp.status = 429

IsAuthFailure(resp) == resp.status = 401

\* Math.min(Math.pow(2, retryCount) * 1000, 60000)
BackoffWait_linear(rc) == Min((rc + 1) * 1000, 60000)
BackoffWait(rc) == Min(Pow2(rc) * 1000, 60000)

\* 1000 * retryCount, evaluated after retryCount++
LinearWait_const(rc) == 1000
LinearWait(rc) == 1000 * rc

\* retryCount++ after the 429 wait
CountAfter429_stuck(rc) == rc
CountAfter429(rc) == rc + 1

\* if (retryCount === maxRetries - 1) throw error
CatchRethrows(rc) == rc = maxRetries - 1

\* while (retryCount < maxRetries)
LoopContinues_short(rc) == rc < maxRetries - 1
LoopContinues(rc) == rc < maxRetries

\* the catch block: rethrow on the last attempt, else count and wait
Catch(err) ==
    IF CatchRethrows(retryCount)
    THEN /\ rPc' = "thrown"
         /\ rErr' = err
         /\ UNCHANGED <<retryCount, waitLog>>
    ELSE /\ retryCount' = retryCount + 1
         /\ waitLog' = Append(waitLog, [kind |-> "catch", rc |-> retryCount,
                                         ms |-> LinearWait(retryCount + 1),
                                         hint |-> NoHint])
         /\ rPc' = "waitCatch"
         /\ UNCHANGED rErr

\* top of the while loop: issue the next fetch, or fall off the end
LoopTop(rc) ==
    IF LoopContinues(rc)
    THEN /\ rPc' = "fetch"
         /\ requests' = requests + 1
         /\ UNCHANGED rResult
    ELSE /\ rPc' = "returned"
         /\ rResult' = Undefined
         /\ UNCHANGED requests

RetryIdle ==
    /\ rPc = "start"
    /\ retryCount = 0
    /\ requests = 0
    /\ seen = <<>>
    /\ waitLog = <<>>
    /\ rResult = NoValue
    /\ rErr = NoErr

RetryInit == RetryIdle /\ StreamIdle /\ ConvIdle /\ ImageIdle /\ CardIdle /\ OrchIdle /\ DecIdle /\ QueueIdle

\* the caller invokes callVeniceAPI: first pass through the loop head
Call ==
    /\ rPc = "start"
    /\ LoopTop(retryCount)
    /\ UNCHANGED <<retryCount, seen, waitLog, rErr>>

\* fetch rejects: no response at all
FetchRejected ==
    /\ rPc = "fetch"
    /\ seen' = Append(seen, NetworkFailure)
    /\ Catch([type |-> "network", status |-> 0, msg |-> "-"])
    /\ UNCHANGED <<requests, rResult>>

\* any response whose body does not parse: response.json() rejects inside try
ResponseBodyUnparseable ==
    /\ rPc = "fetch"
    /\ \E resp \in Responses :
          /\ resp.body = "unparseable"
          /\ seen' = Append(seen, resp)
          /\ Catch([type |-> "parse", status |-> 0, msg |-> "-"])
    /\ UNCHANGED <<requests, rResult>>

\* 2xx with a body that parses: return await response.json()
ResponseSuccess ==
    /\ rPc = "fetch"
    /\ \E resp \in Responses :
          /\ ResponseOk(resp)
          /\ resp.body # "unparseable"
          /\ seen' = Append(seen, resp)
          /\ rPc' = "returned"
          /\ rResult' = resp.body
    /\ UNCHANGED <<retryCount, requests, waitLog, rErr>>

\* 429: schedule the exponential wait
Response429 ==
    /\ rPc = "fetch"
    /\ \E resp \in Responses :
          /\ ~ResponseOk(resp)
          /\ resp.body # "unparseable"
          /\ IsRateLimited(resp)
          /\ seen' = Append(seen, resp)
          /\ waitLog' = Append(waitLog, [kind |-> "429", rc |-> retryCount,
                                          ms |-> BackoffWait(retryCount),
                                          hint |-> resp.hint])
          /\ rPc' = "wait429"
    /\ UNCHANGED <<retryCount, requests, rResult, rErr>>

\* 401: throw inside the try block, which the catch block receives
Response401 ==
    /\ rPc = "fetch"
    /\ \E resp \in Responses :
          /\ ~ResponseOk(resp)
          /\ resp.body # "unparseable"
          /\ ~IsRateLimited(resp)
          /\ IsAuthFailure(resp)
          /\ seen' = Append(seen, resp)
          /\ Catch([type |-> "auth", status |-> 401, msg |-> "Invalid API key"])
    /\ UNCHANGED <<requests, rResult>>

\* any other non-2xx: throw `API Error (status): message` inside the try block
ResponseOtherError ==
    /\ rPc = "fetch"
    /\ \E resp \in Responses :
          /\ ~ResponseOk(resp)
          /\ resp.body # "unparseable"
          /\ ~IsRateLimited(resp)
          /\ ~IsAuthFailure(resp)
          /\ seen' = Append(seen, resp)
          /\ IF resp.body = "noerror"
             THEN Catch([type |-> "type", status |-> 0, msg |-> "-"])
             ELSE Catch([type |-> "api", status |-> resp.status, msg |-> resp.body])
    /\ UNCHANGED <<requests, rResult>>

\* the 429 timer fires: retryCount++; continue
Timer429Fires ==
    /\ rPc = "wait429"
    /\ retryCount' = CountAfter429(retryCount)
    /\ LoopTop(CountAfter429(retryCount))
    /\ UNCHANGED <<seen, waitLog, rErr>>

\* the catch-block timer fires: back to the loop head
TimerCatchFires ==
    /\ rPc = "waitCatch"
    /\ LoopTop(retryCount)
    /\ UNCHANGED <<retryCount, seen, waitLog, rErr>>

NextRetry ==
    \/ Call /\ UNCHANGED <<streamVars, convVars, imageVars, cardVars, orchVars, decVars, queueVars>>
    \/ FetchRejected /\ UNCHANGED <<streamVars, convVars, imageVars, cardVars, orchVars, decVars, queueVars>>
    \/ ResponseBodyUnparseable /\ UNCHANGED <<streamVars, convVars, imageVars, cardVars, orchVars, decVars, queueVars>>
    \/ ResponseSuccess /\ UNCHANGED <<streamVars, convVars, imageVars, cardVars, orchVars, decVars, queueVars>>
    \/ Response429 /\ UNCHANGED <<streamVars, convVars, imageVars, cardVars, orchVars, decVars, queueVars>>
    \/ Response401 /\ UNCHANGED <<streamVars, convVars, imageVars, cardVars, orchVars, decVars, queueVars>>
    \/ ResponseOtherError /\ UNCHANGED <<streamVars, convVars, imageVars, cardVars, orchVars, decVars, queueVars>>
    \/ Timer429Fires /\ UNCHANGED <<streamVars, convVars, imageVars, cardVars, orchVars, decVars, queueVars>>
    \/ TimerCatchFires /\ UNCHANGED <<streamVars, convVars, imageVars, cardVars, orchVars, decVars, queueVars>>

SpecRetry == RetryInit /\ [][NextRetry]_vars

RetryTypeOK ==
    /\ rPc \in {"start", "fetch", "wait429", "waitCatch", "returned", "thrown"}
    /\ retryCount \in 0..maxRetries
    /\ requests \in Nat
    /\ Len(seen) <= requests

RetryEnded == rPc \in {"returned", "thrown"}

\* the first k outcomes are 429 responses, whatever their body
FirstAre429(k) ==
    /\ Len(seen) >= k
    /\ \A i \in 1..k : seen[i].status = 429

\* C1: a 401 response is fatal: the attempt that receives it is the last one
\* and the call fails with the authentication error.
C1_AuthNeverRetried ==
    \A i \in 1..Len(seen) :
        seen[i].status = 401 =>
            /\ requests = i
            /\ rPc = "thrown"
            /\ rErr.type = "auth"

\* C2: when every response is a 429, the call issues exactly 3 requests and
\* ends by raising an error; it does not return normally.
C2_AllRateLimitedRaises ==
    (RetryEnded /\ Len(seen) >= 1 /\ \A i \in 1..Len(seen) : seen[i].status = 429) =>
        /\ requests = 3
        /\ rPc = "thrown"
        /\ rResult = NoValue

\* C3: k 429 responses (k <= 2) followed by a 2xx response: the call keeps
\* going through the 429s, issues exactly k+1 requests and returns the parsed
\* body of the 2xx response; nothing is requested after the success.
C3_RetryThenSuccess ==
    \A k \in 0..2 :
        /\ (Len(seen) = k /\ FirstAre429(k)) => ~RetryEnded
        /\ ( /\ Len(seen) = k + 1
             /\ FirstAre429(k)
             /\ ResponseOk(seen[k + 1])
             /\ seen[k + 1].body # "unparseable" ) =>
                /\ requests = k + 1
                /\ rPc = "returned"
                /\ rResult = seen[k + 1].body

C3_Witness ==
    /\ Len(seen) = 3
    /\ FirstAre429(2)
    /\ seen[3].status = 200
    /\ rPc = "returned"
    /\ rResult = "b2"

\* C4: a non-2xx response other than 429 and 401 is propagated on its first
\* occurrence with its status and message; no request follows it.
C4_OtherErrorFatal ==
    \A i \in 1..Len(seen) :
        (seen[i].status \in {500, 503} /\ seen[i].body = "m1") =>
            /\ requests = i
            /\ rPc = "thrown"
            /\ rErr = [type |-> "api", status |-> seen[i].status, msg |-> seen[i].body]

\* C5: one call never issues more than 3 requests, whatever the outcomes.
C5_AtMostThreeRequests == requests <= 3

C5_Witness ==
    /\ requests = 3
    /\ RetryEnded
    /\ \E i, j \in 1..3 : seen[i].status = 429 /\ seen[j] = NetworkFailure

\* C6: a network failure of attempt k (k = 1, 2) is followed by a wait of
\* k * 1000 ms and another attempt; a network failure of attempt 3 is raised
\* to the caller with no further wait.
C6_NetworkLinearBackoff ==
    \A i \in 1..Len(seen) :
        seen[i] = NetworkFailure =>
            IF i < 3
            THEN /\ Len(waitLog) >= i
                 /\ waitLog[i].kind = "catch"
                 /\ waitLog[i].ms = i * 1000
                 /\ requests = i => rPc = "waitCatch"
                 /\ Len(seen) = i => rPc \in {"waitCatch", "fetch"}
            ELSE /\ rPc = "thrown"
                 /\ rErr.type = "network"
                 /\ Len(waitLog) = 2
                 /\ requests = 3

C6_Witness ==
    /\ Len(seen) = 3
    /\ \A i \in 1..3 : seen[i] = NetworkFailure
    /\ rPc = "thrown"
    /\ Len(waitLog) = 2

ExpectedBackoff == <<1000, 2000, 4000>>

\* C7: the wait scheduled on a 429 received with retryCount prior retries is
\* 1000, 2000, 4000 ms for retryCount 0, 1, 2, and never exceeds 60000 ms.
C7_ExponentialBackoff ==
    \A i \in 1..Len(waitLog) :
        waitLog[i].kind = "429" =>
            /\ waitLog[i].rc = i - 1
            /\ waitLog[i].ms = ExpectedBackoff[waitLog[i].rc + 1]
            /\ waitLog[i].ms <= 60000

C7_Witness ==
    /\ Len(waitLog) = 3
    /\ \A i \in 1..3 : waitLog[i].kind = "429"
    /\ waitLog[3].ms = 4000

\* C8: a reset hint on a 429 response is honoured: the call does not retry
\* before the reset the server announced.
C8_ResetHintHonoured ==
    \A i \in 1..Len(waitLog) :
        (waitLog[i].kind = "429" /\ waitLog[i].hint # NoHint) =>
            waitLog[i].ms >= waitLog[i].hint

\* what the code does instead: the wait is a function of retryCount alone
C8_WaitIgnoresHint ==
    \A i, j \in 1..Len(waitLog) :
        (waitLog[i].kind = "429" /\ waitLog[j].kind = "429"
            /\ waitLog[i].rc = waitLog[j].rc) => waitLog[i].ms = waitLog[j].ms

(***************************************************************************)
(* streamChatCompletion                                                    *)
(*                                                                         *)
(* Text is a sequence of one-character strings.  A JSON payload is written *)
(* in a short form: "{a}" stands for {"choices":[{"delta":{"content":"a"}}]}*)
(* "{}" for a delta without content, and anything else does not parse.     *)
(***************************************************************************)

MaxLines == 3

NL == "\n"
DataPrefix == <<"d", "a", "t", "a", ":", " ">>
DoneSentinel == <<"[", "D", "O", "N", "E", "]">>
Letters == {"a", "b"}
Whitespace == {" "}

LineDeltaA == DataPrefix \o <<"{", "a", "}">>
LineDeltaB == DataPrefix \o <<"{", "b", "}">>
LineNoContent == DataPrefix \o <<"{", "}">>
LineMalformed == DataPrefix \o <<"{", "a">>
LineDone == DataPrefix \o DoneSentinel
LineBlank == <<>>

LineKinds == {LineDeltaA, LineDeltaB, LineNoContent, LineMalformed, LineDone, LineBlank}

\* text after the last newline when the server stops without terminating it
Tails == {<<>>, LineDeltaB, LineDone}

RECURSIVE Flatten(_)
Flatten(ls) ==
    IF ls = <<>> THEN <<>> ELSE Head(ls) \o <<NL>> \o Flatten(Tail(ls))

Streams ==
    { Flatten(ls) \o t : ls \in UNION { [1..n -> LineKinds] : n \in 0..MaxLines },
                         t \in Tails }

\* String.prototype.split('\n'): the pieces between newlines, at least one
RECURSIVE SplitNL(_, _)
SplitNL(s, cur) ==
    IF s = <<>> THEN <<cur>>
    ELSE IF Head(s) = NL THEN <<cur>> \o SplitNL(Tail(s), <<>>)
    ELSE SplitNL(Tail(s), Append(cur, Head(s)))

Split(s) == SplitNL(s, <<>>)

\* lines.pop() || ''
CarryOver_drop(parts) == <<>>
CarryOver(parts) == parts[Len(parts)]

\* the array left after lines.pop()
CompleteLines(parts) == SubSeq(parts, 1, Len(parts) - 1)

\* !line.trim()
IsBlank(line) == \A i \in 1..Len(line) : line[i] \in Whitespace

\* line.startsWith('data: ')
StartsWithData(line) ==
    Len(line) >= Len(DataPrefix) /\ SubSeq(line, 1, Len(DataPrefix)) = DataPrefix

\* line.slice(6)
Slice6(line) == SubSeq(line, 7, Len(line))

\* data === '[DONE]'
IsDone_never(data) == data = <<"D", "O", "N", "E">>
IsDone(data) == data = DoneSentinel

\* JSON.parse(data) succeeds and parsed.choices[0] can be read
JsonParses(data) ==
    /\ Len(data) \in {2, 3}
    /\ data[1] = "{"
    /\ data[Len(data)] = "}"
    /\ Len(data) = 3 => data[2] \in Letters

\* parsed.choices[0]?.delta?.content, <<>> when there is none
DeltaContent(data) == IF Len(data) = 3 THEN <<data[2]>> ELSE <<>>

RECURSIVE ProcessLines_abort(_, _, _, _)
ProcessLines_abort(lines, i, out, n) ==
    IF i > Len(lines) THEN [out |-> out, n |-> n, done |-> FALSE, left |-> 0]
    ELSE LET line == lines[i]
             data == Slice6(line)
         IN  IF IsBlank(line) \/ ~StartsWithData(line)
             THEN ProcessLines_abort(lines, i + 1, out, n + 1)
             ELSE IF IsDone(data)
             THEN [out |-> out, n |-> n + 1, done |-> TRUE, left |-> Len(lines) - i]
             ELSE IF JsonParses(data)
             THEN ProcessLines_abort(lines, i + 1, out \o DeltaContent(data), n + 1)
             ELSE [out |-> out, n |-> n + 1, done |-> FALSE, left |-> Len(lines) - i]

\* the for loop over the complete lines of one chunk, from line i on:
\* out are the onChunk arguments so far, n the lines taken up so far
RECURSIVE ProcessLines(_, _, _, _)
ProcessLines(lines, i, out, n) ==
    IF i > Len(lines) THEN [out |-> out, n |-> n, done |-> FALSE, left |-> 0]
    ELSE LET line == lines[i]
             data == Slice6(line)
         IN  IF IsBlank(line) \/ ~StartsWithData(line)
             THEN ProcessLines(lines, i + 1, out, n + 1)
             ELSE IF IsDone(data)
             THEN [out |-> out, n |-> n + 1, done |-> TRUE, left |-> Len(lines) - i]
             ELSE IF JsonParses(data)
             THEN ProcessLines(lines, i + 1, out \o DeltaContent(data), n + 1)
             ELSE ProcessLines(lines, i + 1, out, n + 1)

\* finally { reader.releaseLock() }: runs on return, on break and on a throw
ReleaseOn_noThrow(exit, n) == IF exit = "throw" THEN n ELSE n + 1
ReleaseOn(exit, n) == n + 1

\* if (done) break: the text still in the buffer is not decoded
AtEnd_flush(buf, out) ==
    IF StartsWithData(buf) /\ JsonParses(Slice6(buf))
    THEN out \o DeltaContent(Slice6(buf)) ELSE out
AtEnd(buf, out) == out

\* if (done) break: onComplete is not called when the stream just ends
CompleteAtEnd_calls(n) == n + 1
CompleteAtEnd(n) == n

\* what becomes of the errors thrown by `calls` onChunk calls: the try / catch
\* around JSON.parse and onChunk takes each of them
CallbackErrors_escape(throws, calls) ==
    IF throws /\ calls > 0 THEN "escapes" ELSE "caught"
CallbackErrors(throws, calls) == "caught"

StreamInit ==
    /\ sPc = "start"
    /\ stream \in Streams
    /\ pos = 0
    /\ buffer = <<>>
    /\ emitted = <<>>
    /\ readPending = FALSE
    /\ completeCalls = 0
    /\ released = 0
    /\ examined = 0
    /\ skipped = 0
    /\ splitMid = FALSE
    /\ onChunkThrows = FALSE
    /\ caught = 0
    /\ RetryIdle
    /\ ConvIdle
    /\ ImageIdle
    /\ CardIdle
    /\ OrchIdle
    /\ DecIdle
    /\ QueueIdle

\* fetch resolves, the reader is acquired and the first read is issued
StreamOpen ==
    /\ sPc = "start"
    /\ sPc' = "reading"
    /\ readPending' = TRUE
    /\ UNCHANGED <<stream, pos, buffer, emitted, completeCalls, released,
                   examined, skipped, splitMid, onChunkThrows, caught>>

\* reader.read() resolves with a chunk of n characters: one pass of the loop
ReadChunk ==
    /\ sPc = "reading"
    /\ readPending
    /\ pos < Len(stream)
    /\ \E n \in 1..(Len(stream) - pos) :
       \E parts \in {Split(buffer \o SubSeq(stream, pos + 1, pos + n))} :
       \E r \in {ProcessLines(CompleteLines(parts), 1, emitted, examined)} :
             /\ pos' = pos + n
             /\ buffer' = CarryOver(parts)
             /\ emitted' = r.out
             /\ examined' = r.n
             /\ skipped' = r.left
             /\ splitMid' = (splitMid \/ parts[Len(parts)] # <<>>)
             /\ caught' = caught + (IF onChunkThrows THEN Len(r.out) - Len(emitted) ELSE 0)
             /\ IF CallbackErrors(onChunkThrows, Len(r.out) - Len(emitted)) = "escapes"
                THEN /\ readPending' = FALSE
                     /\ sPc' = "failed"
                     /\ released' = ReleaseOn("throw", released)
                     /\ UNCHANGED completeCalls
                ELSE IF r.done
                THEN /\ completeCalls' = completeCalls + 1
                     /\ readPending' = FALSE
                     /\ \E throws \in BOOLEAN :
                           IF throws
                           THEN /\ sPc' = "failed"
                                /\ released' = ReleaseOn("throw", released)
                           ELSE /\ sPc' = "done"
                                /\ released' = ReleaseOn("return", released)
                ELSE /\ readPending' = TRUE
                     /\ sPc' = "reading"
                     /\ UNCHANGED <<completeCalls, released>>
    /\ UNCHANGED <<stream, onChunkThrows>>

\* reader.read() resolves with done: break, then the finally block
ReadEnd ==
    /\ sPc = "reading"
    /\ readPending
    /\ pos = Len(stream)
    /\ readPending' = FALSE
    /\ released' = ReleaseOn("break", released)
    /\ emitted' = AtEnd(buffer, emitted)
    /\ completeCalls' = CompleteAtEnd(completeCalls)
    /\ sPc' = "ended"
    /\ UNCHANGED <<stream, pos, buffer, examined, skipped, splitMid, onChunkThrows,
                   caught>>

\* reader.read() rejects: the error leaves through the finally block
ReadFails ==
    /\ sPc = "reading"
    /\ readPending
    /\ readPending' = FALSE
    /\ released' = ReleaseOn("throw", released)
    /\ sPc' = "failed"
    /\ UNCHANGED <<stream, pos, buffer, emitted, completeCalls, examined,
                   skipped, splitMid, onChunkThrows, caught>>

NextStream ==
    \/ StreamOpen /\ UNCHANGED <<retryVars, convVars, imageVars, cardVars, orchVars, decVars, queueVars>>
    \/ ReadChunk /\ UNCHANGED <<retryVars, convVars, imageVars, cardVars, orchVars, decVars, queueVars>>
    \/ ReadEnd /\ UNCHANGED <<retryVars, convVars, imageVars, cardVars, orchVars, decVars, queueVars>>
    \/ ReadFails /\ UNCHANGED <<retryVars, convVars, imageVars, cardVars, orchVars, decVars, queueVars>>

SpecStream == StreamInit /\ [][NextStream]_vars

\* the same decoder, called with an onChunk callback that throws
ThrowingInit ==
    /\ sPc = "start"
    /\ stream \in Streams
    /\ pos = 0
    /\ buffer = <<>>
    /\ emitted = <<>>
    /\ readPending = FALSE
    /\ completeCalls = 0
    /\ released = 0
    /\ examined = 0
    /\ skipped = 0
    /\ splitMid = FALSE
    /\ onChunkThrows = TRUE
    /\ caught = 0
    /\ RetryIdle
    /\ ConvIdle
    /\ ImageIdle
    /\ CardIdle
    /\ OrchIdle
    /\ DecIdle
    /\ QueueIdle

SpecStreamThrowing == ThrowingInit /\ [][NextStream]_vars

StreamFinished == sPc \in {"done", "ended"}

NewlineTerminated(st) == st = <<>> \/ st[Len(st)] = NL

\* the newline-terminated lines of a text, taken as a whole
AllLines(st) == CompleteLines(Split(st))

\* index of the first line `data: [DONE]`, 0 when there is none
FirstDoneIndex(ls) ==
    IF \E i \in 1..Len(ls) : ls[i] = LineDone
    THEN CHOOSE i \in 1..Len(ls) :
            ls[i] = LineDone /\ \A j \in 1..(i - 1) : ls[j] # LineDone
    ELSE 0

FramesBeforeDone(ls) ==
    IF FirstDoneIndex(ls) = 0 THEN ls ELSE SubSeq(ls, 1, FirstDoneIndex(ls) - 1)

WellFormedFrame(line) == StartsWithData(line) /\ JsonParses(Slice6(line))

\* the content fields of the well-formed data frames, in frame order
RECURSIVE ContentsOf(_)
ContentsOf(ls) ==
    IF ls = <<>> THEN <<>>
    ELSE (IF WellFormedFrame(Head(ls)) THEN DeltaContent(Slice6(Head(ls))) ELSE <<>>)
            \o ContentsOf(Tail(ls))

ExpectedDeltas(st) == ContentsOf(FramesBeforeDone(AllLines(st)))

IsPrefix(a, b) == Len(a) <= Len(b) /\ a = SubSeq(b, 1, Len(a))

\* C9: for a newline-terminated stream the onChunk calls are the content
\* fields of the well-formed data frames before [DONE], in frame order,
\* however the stream is cut into chunks.
C9_ChunkingInvariant ==
    NewlineTerminated(stream) =>
        /\ IsPrefix(emitted, ExpectedDeltas(stream))
        /\ StreamFinished => emitted = ExpectedDeltas(stream)

C9_Witness ==
    /\ NewlineTerminated(stream)
    /\ StreamFinished
    /\ splitMid
    /\ emitted = <<"a", "b">>
    /\ FirstDoneIndex(AllLines(stream)) = 3

\* a complete line `data: [DONE]` is among the characters delivered so far
DoneDelivered == FirstDoneIndex(AllLines(SubSeq(stream, 1, pos))) # 0

\* C10: once a complete line `data: [DONE]` has been decoded the decoder is
\* final: no read is outstanding, the lines taken up are exactly those up to
\* the [DONE] line and the onChunk calls are those of the frames before it.
C10_DoneIsFinal ==
    DoneDelivered =>
        /\ sPc \in {"done", "failed"}
        /\ ~readPending
        /\ examined = FirstDoneIndex(AllLines(stream))
        /\ emitted = ExpectedDeltas(stream)

C10_Witness ==
    /\ sPc = "done"
    /\ skipped >= 1
    /\ pos < Len(stream)
    /\ Len(AllLines(stream)) = 3
    /\ AllLines(stream)[2] = LineDeltaA
    /\ AllLines(stream)[3] = LineDeltaB

\* the newline-terminated lines among the characters delivered so far
DeliveredLines == AllLines(SubSeq(stream, 1, pos))

MalformedFrame(line) == StartsWithData(line) /\ ~IsDone(Slice6(line)) /\ ~JsonParses(Slice6(line))

\* a data frame that fails to parse has been delivered ahead of any [DONE]
MalformedDelivered ==
    \E i \in 1..Len(FramesBeforeDone(DeliveredLines)) :
        MalformedFrame(DeliveredLines[i])

\* C11: a data frame that fails to parse is discarded alone: no error reaches
\* the caller because of it and every well-formed frame delivered so far,
\* before as after it, has had its delta emitted.
C11_MalformedFrameSurvivable ==
    (MalformedDelivered /\ sPc \in {"reading", "done", "ended"}) =>
        /\ emitted = ContentsOf(FramesBeforeDone(DeliveredLines))
        /\ sPc = "reading" => readPending
        /\ examined = IF FirstDoneIndex(DeliveredLines) = 0
                      THEN Len(DeliveredLines)
                      ELSE FirstDoneIndex(DeliveredLines)

C11_Witness ==
    /\ Len(DeliveredLines) = 3
    /\ DeliveredLines[1] = LineDeltaA
    /\ DeliveredLines[2] = LineMalformed
    /\ DeliveredLines[3] = LineDeltaB
    /\ emitted = <<"a", "b">>
    /\ sPc = "ended"

StreamExited == sPc \in {"done", "ended", "failed"}

\* C12: once the reader has been acquired, releaseLock is called exactly once
\* on every exit path and never before the exit.
C12_ReleasedExactlyOnce ==
    /\ StreamExited => released = 1
    /\ ~StreamExited => released = 0

\* the exit through an exception escaping from onComplete
C12_Witness ==
    /\ sPc = "failed"
    /\ completeCalls = 1
    /\ released = 1

\* the text after the last newline of a text
RECURSIVE TextAfterLastNewline(_)
TextAfterLastNewline(st) ==
    IF st = <<>> \/ st[Len(st)] = NL THEN <<>>
    ELSE Append(TextAfterLastNewline(SubSeq(st, 1, Len(st) - 1)), st[Len(st)])

\* C24: a line is decoded only after its newline has arrived: between
\* chunks the buffer holds exactly the text after the last newline and the
\* lines taken up and the deltas emitted are those of the newline-terminated
\* lines; at the end of the stream a last line without newline has been
\* dropped undecoded, whether it is a delta or [DONE].
C24_OnlyTerminatedLinesDecoded ==
    /\ (sPc = "reading" /\ readPending) =>
          /\ buffer = TextAfterLastNewline(SubSeq(stream, 1, pos))
          /\ examined = Len(DeliveredLines)
          /\ emitted = ContentsOf(DeliveredLines)
          /\ completeCalls = 0
    /\ sPc = "ended" =>
          /\ buffer = TextAfterLastNewline(stream)
          /\ examined = Len(AllLines(stream))
          /\ emitted = ContentsOf(AllLines(stream))
          /\ completeCalls = 0

\* the stream ended on a delta frame whose newline never came
C24_Witness ==
    /\ sPc = "ended"
    /\ buffer = LineDeltaB
    /\ splitMid
    /\ Len(AllLines(stream)) = 2
    /\ emitted = <<"a">>

\* C32: onComplete is called at most once, and it has been called exactly
\* when a complete line `data: [DONE]` is among the characters delivered;
\* when the stream ends without such a line the function returns normally
\* and onComplete was never called.
C32_CompleteOnlyOnDone ==
    /\ completeCalls <= 1
    /\ completeCalls = 1 <=> DoneDelivered
    /\ sPc = "ended" =>
          /\ completeCalls = 0
          /\ FirstDoneIndex(AllLines(stream)) = 0
          /\ pos = Len(stream)
    /\ (pos = Len(stream) /\ FirstDoneIndex(AllLines(stream)) = 0) =>
          sPc \in {"start", "reading", "ended", "failed"} /\ completeCalls = 0

\* the stream ended on `data: [DONE]` without its newline
C32_Witness ==
    /\ sPc = "ended"
    /\ buffer = LineDone
    /\ completeCalls = 0
    /\ emitted = <<"a", "b">>

\* C33: an error thrown by the caller's onChunk is taken by the per-frame
\* catch: every onChunk call that threw was caught, the frames after it are
\* decoded as usual, and the call fails only when a read fails or onComplete
\* throws, never because of onChunk.
C33_OnChunkErrorContained ==
    /\ [](onChunkThrows =>
             /\ caught = Len(emitted)
             /\ sPc \in {"reading", "done", "ended"} =>
                   emitted = ContentsOf(FramesBeforeDone(DeliveredLines)))
    /\ [][(onChunkThrows /\ sPc # "failed" /\ sPc' = "failed") =>
             (completeCalls' = completeCalls + 1 \/ pos' = pos)]_vars

\* two onChunk calls threw and the stream was decoded to its end
C33_Witness ==
    /\ onChunkThrows
    /\ caught = 2
    /\ emitted = <<"a", "b">>
    /\ sPc = "ended"

(***************************************************************************)
(* VeniceConversation                                                      *)
(*                                                                         *)
(* A message is {role, content}; seq numbers the pushes so that a message  *)
(* can be told from every other one.                                       *)
(***************************************************************************)

MaxPushes == 5
MaxClears == 1

\* history lengths the observed operations start from: a new conversation,
\* and one that addMessage('system', 'm') has filled to one below maxHistory
Seeds == {0, MaxHistoryValue - 1}

SeedMessages(n) == [i \in 1..n |-> [role |-> "system", content |-> "m", seq |-> i]]

\* pushes made or owed (one reply per call in flight) since the start
PushesCommitted == (nextSeq - 1 - seeded) + Cardinality({k \in Calls : sendPc[k] = "inflight"})

Replies == {"r1", "r2"}

Last(s) == s[Len(s)]

\* Array.prototype.slice(-n) for 0 < n
SliceLast_oneMore(s, n) == IF Len(s) <= n + 1 THEN s ELSE SubSeq(s, Len(s) - n, Len(s))
SliceLast_oldest(s, n) == IF Len(s) <= n THEN s ELSE SubSeq(s, 1, n)
SliceLast(s, n) == IF Len(s) <= n THEN s ELSE SubSeq(s, Len(s) - n + 1, Len(s))

\* addMessage: push, then trim to the last maxHistory messages
Pushed(msgs, role, content) ==
    LET pushed == Append(msgs, [role |-> role, content |-> content, seq |-> nextSeq])
    IN  IF Len(pushed) > maxHistory THEN SliceLast(pushed, maxHistory) ELSE pushed

\* messages: this.messages in the request body
RequestMessages_lastOnly(msgs) == <<Last(msgs)>>
RequestMessages(msgs) == msgs

\* return assistantMessage
Returned_raw(reply) == "[object Object]"
Returned(reply) == reply

\* this.messages = []
Cleared_keepSystem(msgs) == SelectSeq(msgs, LAMBDA m : m.role = "system")
Cleared(msgs) == <<>>

InFlight == {k \in Calls : sendPc[k] = "inflight"}

\* a caller invokes addMessage(role, content) directly
AddMessage ==
    /\ PushesCommitted < MaxPushes
    /\ messages' = Pushed(messages, "system", "m")
    /\ nextSeq' = nextSeq + 1
    /\ UNCHANGED <<apiKey, model, maxHistory, clears, clearedAt, seeded, sendPc, sendReq, sendRet>>

\* send(userMessage): addMessage('user', ...) and the fetch call, up to the first await
SendStart ==
    \E k \in Calls :
        /\ sendPc[k] = "idle"
        /\ PushesCommitted + 1 < MaxPushes
        /\ messages' = Pushed(messages, "user", k)
        /\ nextSeq' = nextSeq + 1
        /\ sendReq' = [sendReq EXCEPT ![k] = RequestMessages(messages')]
        /\ sendPc' = [sendPc EXCEPT ![k] = "inflight"]
        /\ UNCHANGED <<apiKey, model, maxHistory, clears, clearedAt, seeded, sendRet>>

\* the response arrives with choices[0].message.content:
\* addMessage('assistant', ...) and return
SendReturns ==
    \E k \in Calls, reply \in Replies :
        /\ sendPc[k] = "inflight"
        /\ messages' = Pushed(messages, "assistant", reply)
        /\ nextSeq' = nextSeq + 1
        /\ sendRet' = [sendRet EXCEPT ![k] = Returned(reply)]
        /\ sendPc' = [sendPc EXCEPT ![k] = "returned"]
        /\ UNCHANGED <<apiKey, model, maxHistory, clears, clearedAt, seeded, sendReq>>

\* fetch rejects, the body is not JSON, or it has no choices: send throws
SendThrows_rollback ==
    \E k \in Calls :
        /\ sendPc[k] = "inflight"
        /\ sendPc' = [sendPc EXCEPT ![k] = "thrown"]
        /\ messages' = SelectSeq(messages, LAMBDA m : ~(m.role = "user" /\ m.content = k))
        /\ UNCHANGED <<apiKey, model, maxHistory, nextSeq, clears,
                       clearedAt, seeded, sendReq, sendRet>>
SendThrows ==
    \E k \in Calls :
        /\ sendPc[k] = "inflight"
        /\ sendPc' = [sendPc EXCEPT ![k] = "thrown"]
        /\ UNCHANGED <<apiKey, model, messages, maxHistory, nextSeq, clears,
                       clearedAt, seeded, sendReq, sendRet>>

\* clear()
Clear ==
    /\ clears < MaxClears
    /\ messages' = Cleared(messages)
    /\ clears' = clears + 1
    /\ clearedAt' = nextSeq - 1
    /\ UNCHANGED <<apiKey, model, maxHistory, nextSeq, seeded, sendPc, sendReq, sendRet>>

ConvInit ==
    /\ apiKey = "your-api-key"
    /\ model = "venice-uncensored"
    /\ maxHistory = MaxHistoryValue
    /\ seeded \in Seeds
    /\ messages = SeedMessages(seeded)
    /\ nextSeq = seeded + 1
    /\ clears = 0
    /\ clearedAt = 0
    /\ sendPc = [k \in Calls |-> "idle"]
    /\ sendReq = [k \in Calls |-> <<>>]
    /\ sendRet = [k \in Calls |-> "none"]
    /\ RetryIdle
    /\ StreamIdle
    /\ ImageIdle
    /\ CardIdle
    /\ OrchIdle
    /\ DecIdle
    /\ QueueIdle

NextConv ==
    \/ AddMessage /\ UNCHANGED <<retryVars, streamVars, imageVars, cardVars, orchVars, decVars, queueVars>>
    \/ SendStart /\ UNCHANGED <<retryVars, streamVars, imageVars, cardVars, orchVars, decVars, queueVars>>
    \/ SendReturns /\ UNCHANGED <<retryVars, streamVars, imageVars, cardVars, orchVars, decVars, queueVars>>
    \/ SendThrows /\ UNCHANGED <<retryVars, streamVars, imageVars, cardVars, orchVars, decVars, queueVars>>
    \/ Clear /\ UNCHANGED <<retryVars, streamVars, imageVars, cardVars, orchVars, decVars, queueVars>>

SpecConv == ConvInit /\ [][NextConv]_vars

ConvTypeOK ==
    /\ nextSeq - 1 - seeded \in 0..MaxPushes
    /\ clears \in 0..MaxClears
    /\ \A k \in Calls : sendPc[k] \in {"idle", "inflight", "returned", "thrown"}

\* number of pushes since the construction or the last clear()
PushedSinceClear == nextSeq - 1 - clearedAt

\* C13: after every sequence of addMessage, send and clear operations the
\* message list holds at most 20 messages.
C13_HistoryBounded == Len(messages) <= 20

C13_Witness ==
    /\ Len(messages) = 20
    /\ PushedSinceClear > 20
    /\ \E k \in Calls : sendPc[k] = "returned"

\* C14: after N pushes with N > maxHistory the list has exactly maxHistory
\* messages, the most recently pushed ones in push order; before that it
\* holds all of them.  Trimming removes from the oldest end only.
C14_KeepsMostRecent ==
    /\ PushedSinceClear > maxHistory => Len(messages) = maxHistory
    /\ PushedSinceClear <= maxHistory => Len(messages) = PushedSinceClear
    /\ \A i \in 1..Len(messages) :
          /\ messages[i].seq = nextSeq - 1 - Len(messages) + i
          /\ messages[i].seq <= seeded => messages[i] = SeedMessages(seeded)[messages[i].seq]

C14_Witness ==
    /\ clears = 0
    /\ nextSeq - 1 = 23
    /\ Len(messages) = 20
    /\ messages[1].seq = 4
    /\ messages[20].seq = 23

OthersInFlight(k) == {j \in Calls \ {k} : sendPc[j] = "inflight"}

\* C15: with at most one call in flight, send appends the user message before
\* the request goes out, the request carries the list as it then is (after
\* trimming), and when the response arrives the reply is appended last and is
\* the value returned.
C15_SendAppendsAndReturns ==
    [][\A k \in Calls :
         OthersInFlight(k) = {} =>
            /\ (sendPc[k] = "idle" /\ sendPc'[k] = "inflight") =>
                  /\ Last(messages').role = "user"
                  /\ Last(messages').content = k
                  /\ Last(messages').seq = nextSeq
                  /\ Len(messages') <= 20
                  /\ sendReq'[k] = messages'
                  /\ \A i \in 1..(Len(messages') - 1) :
                        messages'[i] = messages[Len(messages) - (Len(messages') - 1) + i]
            /\ (sendPc[k] = "inflight" /\ sendPc'[k] = "returned") =>
                  /\ Last(messages').role = "assistant"
                  /\ Last(messages').seq = nextSeq
                  /\ sendRet'[k] \in Replies
                  /\ Last(messages').content = sendRet'[k]
                  /\ sendReq'[k] = sendReq[k]
      ]_vars

C15_Witness ==
    /\ sendPc[1] = "returned"
    /\ sendPc[2] = "idle"
    /\ Len(sendReq[1]) = 20
    /\ Last(sendReq[1]).role = "user"
    /\ Last(messages).role = "assistant"
    /\ Last(messages).content = sendRet[1]
    /\ Last(messages).seq = Last(sendReq[1]).seq + 1

\* C16: nothing serializes two send calls on one instance: a second send that
\* starts while the first is in flight and its user message is still the last
\* one sends a request that carries that unanswered user message, and the
\* history then holds two user messages in a row.
C16_ConcurrentSendsInterleave ==
    [][\A j, k \in Calls :
         ( /\ j # k
           /\ sendPc[j] = "inflight"
           /\ messages # <<>>
           /\ Last(messages).role = "user"
           /\ Last(messages).content = j
           /\ sendPc[k] = "idle"
           /\ sendPc'[k] = "inflight" ) =>
            /\ Len(sendReq'[k]) >= 2
            /\ sendReq'[k][Len(sendReq'[k]) - 1] = Last(messages)
            /\ Last(sendReq'[k]).role = "user"
            /\ Last(sendReq'[k]).content = k
            /\ \A i \in 1..Len(sendReq'[k]) :
                  sendReq'[k][i].role = "assistant" => sendReq'[k][i].seq < Last(messages).seq
            /\ Len(messages') >= 2
            /\ messages'[Len(messages') - 1].role = "user"
            /\ Last(messages').role = "user"
      ]_vars

C16_Witness ==
    /\ sendPc[1] = "inflight"
    /\ sendPc[2] = "inflight"
    /\ Len(sendReq[2]) >= 2
    /\ sendReq[2][Len(sendReq[2]) - 1] = [role |-> "user", content |-> 1, seq |-> nextSeq - 2]
    /\ Last(sendReq[2]) = [role |-> "user", content |-> 2, seq |-> nextSeq - 1]
    /\ messages = sendReq[2]

\* C34: a send that raises does not roll back: the step in which call k
\* raises leaves the history as it is, with k's user message and no
\* assistant message for it, and a send started next carries that user
\* message right before its own in its request.
C34_FailedSendLeavesUserMessage ==
    [][\A k \in Calls :
         /\ (sendPc[k] = "inflight" /\ sendPc'[k] = "thrown") =>
               /\ messages' = messages
               /\ sendRet'[k] = sendRet[k]
         /\ \A j \in Calls :
               ( /\ sendPc[k] = "thrown"
                 /\ messages' # <<>>
                 /\ messages # <<>>
                 /\ Last(messages).role = "user"
                 /\ Last(messages).content = k
                 /\ sendPc[j] = "idle"
                 /\ sendPc'[j] = "inflight" ) =>
                   /\ Len(sendReq'[j]) >= 2
                   /\ sendReq'[j][Len(sendReq'[j]) - 1] = Last(messages)
                   /\ Last(sendReq'[j]).role = "user"
                   /\ Last(sendReq'[j]).content = j
      ]_vars

\* call 1 raised and call 2 was started after it
C34_Witness ==
    /\ sendPc[1] = "thrown"
    /\ sendPc[2] = "inflight"
    /\ seeded = 0
    /\ messages = <<[role |-> "user", content |-> 1, seq |-> 1],
                    [role |-> "user", content |-> 2, seq |-> 2]>>
    /\ sendReq[2] = messages

\* C17: clear() empties the message list whatever it held and leaves apiKey,
\* model and maxHistory as they were.
C17_ClearResets ==
    [][clears' = clears + 1 =>
          /\ messages' = <<>>
          /\ apiKey' = apiKey
          /\ model' = model
          /\ maxHistory' = maxHistory
      ]_vars

C17_Witness ==
    /\ clears = 1
    /\ clearedAt > 20
    /\ nextSeq - 1 = clearedAt
    /\ messages = <<>>
    /\ maxHistory = 20
    /\ apiKey = "your-api-key"

(***************************************************************************)
(* generateStylizedImage: normalizing the image edit response              *)
(*                                                                         *)
(* A response is its ok flag, its content-type header, whether its body    *)
(* parses as JSON and the fields of that JSON the two variants look at.    *)
(* data is absent, an empty array, or an array whose first element may     *)
(* have url and b64_json (field `is` tells which); images likewise.        *)
(***************************************************************************)

ContentTypes == {Absent, "image/png", "application/json"}

NoData == [is |-> Absent, url |-> Absent, b64_json |-> Absent]
EmptyData == [is |-> "empty", url |-> Absent, b64_json |-> Absent]
DataElements == [is : {"array"}, url : {Absent, "data-url"}, b64_json : {Absent, "data-b64"}]
DataFields == {NoData, EmptyData} \cup DataElements

NoImages == [is |-> Absent, url |-> Absent]
EmptyImages == [is |-> "empty", url |-> Absent]
ImagesElements == [is : {"array"}, url : {Absent, "images-url"}]
ImagesFields == {NoImages, EmptyImages} \cup ImagesElements

JsonBodies ==
    [ok : {TRUE}, status : {200}, ctype : ContentTypes, parses : {TRUE},
     data : DataFields, url : {Absent, "top-url"}, image : {Absent, "top-b64"},
     images : ImagesFields]

\* a body that is not JSON: the bytes of an image, or text
OpaqueBodies ==
    [ok : {TRUE}, status : {200}, ctype : ContentTypes, parses : {FALSE},
     data : {NoData}, url : {Absent}, image : {Absent}, images : {NoImages}]

FailedResponses ==
    [ok : {FALSE}, status : {400, 500}, ctype : {"application/json"}, parses : {TRUE},
     data : {NoData}, url : {Absent}, image : {Absent}, images : {NoImages}]

EditResponses == JsonBodies \cup OpaqueBodies \cup FailedResponses

Value(ref) == [kind |-> "value", ref |-> ref]
Throws(what) == [kind |-> "throw", ref |-> <<what>>]
\* the value JavaScript gives an expression that ends in a missing field
UndefinedValue == [kind |-> "value", ref |-> <<>>]

\* contentType && contentType.includes('image')
IsImageType(ctype) == ctype # Absent /\ ctype = "image/png"

\* `data:image/png;base64,${x}`
DataUri(x) == <<"data:image/png;base64,", x>>

\* data.data && data.data[0].url, and the same for b64_json: reading a field
\* of the first element of an empty array raises a TypeError
NestedUrlStep(resp) ==
    IF resp.data.is = Absent THEN "next"
    ELSE IF resp.data.is = "empty" THEN "typeerror"
    ELSE IF resp.data.url # Absent THEN "match" ELSE "next"

NestedB64Step(resp) ==
    IF resp.data.is = Absent THEN "next"
    ELSE IF resp.data.is = "empty" THEN "typeerror"
    ELSE IF resp.data.b64_json # Absent THEN "match" ELSE "next"

\* the JSON part of generateStylizedImage in part_000, in source order
NormalizeJson_urlFirst(resp) ==
    IF resp.url # Absent THEN Value(<<resp.url>>)
    ELSE IF NestedUrlStep(resp) = "typeerror" THEN Throws("TypeError")
    ELSE IF NestedUrlStep(resp) = "match" THEN Value(<<resp.data.url>>)
    ELSE IF NestedB64Step(resp) = "match" THEN Value(DataUri(resp.data.b64_json))
    ELSE IF resp.image # Absent THEN Value(DataUri(resp.image))
    ELSE Throws("Could not parse image URL from response")
NormalizeJson(resp) ==
    IF NestedUrlStep(resp) = "typeerror" THEN Throws("TypeError")
    ELSE IF NestedUrlStep(resp) = "match" THEN Value(<<resp.data.url>>)
    ELSE IF NestedB64Step(resp) = "match" THEN Value(DataUri(resp.data.b64_json))
    ELSE IF resp.url # Absent THEN Value(<<resp.url>>)
    ELSE IF resp.image # Absent THEN Value(DataUri(resp.image))
    ELSE Throws("Could not parse image URL from response")

\* generateStylizedImage of the card script in part_000, from the response on
GenerateStylizedImage(resp) ==
    IF ~resp.ok THEN Throws("Image API Error")
    ELSE IF IsImageType(resp.ctype) THEN Value(<<"blob:", "body">>)
    ELSE IF ~resp.parses THEN Throws("SyntaxError")
    ELSE NormalizeJson(resp)

\* generateStylizedImage of src/script.js, from the response on:
\* data.url || (data.data && data.data[0].url) || (data.images && data.images[0].url)
GenerateStylizedImageScript_raises(resp) ==
    IF ~resp.ok THEN Throws("API Error")
    ELSE IF ~resp.parses THEN Throws("SyntaxError")
    ELSE IF resp.url # Absent THEN Value(<<resp.url>>)
    ELSE IF resp.data.is = "empty" THEN Throws("TypeError")
    ELSE IF resp.data.is # Absent /\ resp.data.url # Absent THEN Value(<<resp.data.url>>)
    ELSE IF resp.images.is = "empty" THEN Throws("TypeError")
    ELSE IF resp.images.is # Absent /\ resp.images.url # Absent THEN Value(<<resp.images.url>>)
    ELSE Throws("Could not parse image URL from response")
GenerateStylizedImageScript(resp) ==
    IF ~resp.ok THEN Throws("API Error")
    ELSE IF ~resp.parses THEN Throws("SyntaxError")
    ELSE IF resp.url # Absent THEN Value(<<resp.url>>)
    ELSE IF resp.data.is = "empty" THEN Throws("TypeError")
    ELSE IF resp.data.is # Absent /\ resp.data.url # Absent THEN Value(<<resp.data.url>>)
    ELSE IF resp.images.is = "empty" THEN Throws("TypeError")
    ELSE IF resp.images.is # Absent /\ resp.images.url # Absent THEN Value(<<resp.images.url>>)
    ELSE UndefinedValue

ImageInit ==
    /\ imgResp \in EditResponses
    /\ imgOut = Pending
    /\ imgOutScript = Pending
    /\ RetryIdle
    /\ StreamIdle
    /\ ConvIdle
    /\ CardIdle
    /\ OrchIdle
    /\ DecIdle
    /\ QueueIdle

\* the part_000 variant handles the response
Normalize ==
    /\ imgOut = Pending
    /\ imgOut' = GenerateStylizedImage(imgResp)
    /\ UNCHANGED <<imgResp, imgOutScript>>

\* the src/script.js variant handles the same response
NormalizeScript ==
    /\ imgOutScript = Pending
    /\ imgOutScript' = GenerateStylizedImageScript(imgResp)
    /\ UNCHANGED <<imgResp, imgOut>>

NextImage ==
    \/ Normalize /\ UNCHANGED <<retryVars, streamVars, convVars, cardVars, orchVars, decVars, queueVars>>
    \/ NormalizeScript /\ UNCHANGED <<retryVars, streamVars, convVars, cardVars, orchVars, decVars, queueVars>>

SpecImage == ImageInit /\ [][NextImage]_vars

\* the four response shapes
ShapeBinary(resp) == resp.ctype = "image/png"
ShapeTopUrl(resp) == resp.parses /\ resp.url # Absent
ShapeNestedUrl(resp) == resp.parses /\ resp.data.is = "array" /\ resp.data.url # Absent
ShapeInline(resp) ==
    /\ resp.parses
    /\ \/ resp.image # Absent
       \/ resp.data.is = "array" /\ resp.data.b64_json # Absent

MatchesAShape(resp) ==
    ShapeBinary(resp) \/ ShapeTopUrl(resp) \/ ShapeNestedUrl(resp) \/ ShapeInline(resp)

\* C18: an OK response of any of the four shapes gives a non-empty image
\* reference, and an OK JSON response of none of them raises an error.
C18_FourShapesNormalized ==
    (imgOut # Pending /\ imgResp.ok) =>
        /\ MatchesAShape(imgResp) => (imgOut.kind = "value" /\ imgOut.ref # <<>>)
        /\ (imgResp.parses /\ ~MatchesAShape(imgResp)) => imgOut.kind = "throw"

\* the result the fixed priority gives: the image content-type first, then
\* data[0].url, data[0].b64_json, url, image
ByPriority(resp) ==
    IF ShapeBinary(resp) THEN Value(<<"blob:", "body">>)
    ELSE IF ShapeNestedUrl(resp) THEN Value(<<resp.data.url>>)
    ELSE IF resp.parses /\ resp.data.is = "array" /\ resp.data.b64_json # Absent
         THEN Value(DataUri(resp.data.b64_json))
    ELSE IF ShapeTopUrl(resp) THEN Value(<<resp.url>>)
    ELSE IF resp.parses /\ resp.image # Absent THEN Value(DataUri(resp.image))
    ELSE Throws("none")

\* C19: the result of an OK response that matches a shape is the one of the
\* first shape it matches in the fixed priority order.
C19_FixedPriority ==
    (imgOut # Pending /\ imgResp.ok /\ MatchesAShape(imgResp)) =>
        imgOut = ByPriority(imgResp)

\* what holds of the code: the same, for responses whose data field is not
\* an empty array
C19_PriorityUnlessEmptyData ==
    (imgOut # Pending /\ imgResp.ok /\ MatchesAShape(imgResp)
        /\ (imgResp.data.is # "empty" \/ ShapeBinary(imgResp))) =>
        imgOut = ByPriority(imgResp)

\* an OK JSON response with none of the fields url, data, images
NoUrlDataImages(resp) ==
    /\ resp.ok
    /\ resp.parses
    /\ ~IsImageType(resp.ctype)
    /\ resp.url = Absent
    /\ resp.data.is = Absent
    /\ resp.images.is = Absent

BothNormalized == imgOut # Pending /\ imgOutScript # Pending

\* C26 as stated: for an OK JSON response with none of the fields url, data,
\* images, src/script.js returns undefined without raising and part_000
\* raises for the same response.
C26_ScriptUndefinedPart000Raises ==
    (BothNormalized /\ NoUrlDataImages(imgResp)) =>
        /\ imgOutScript = UndefinedValue
        /\ imgOut.kind = "throw"

\* C26 as amended: for such a response src/script.js returns undefined
\* without raising; part_000 raises when the response has no inline image
\* field either and returns that image as a data URI when it has one; in
\* both cases the two variants give different results.
C26_VariantsDifferOnUnrecognized ==
    (BothNormalized /\ NoUrlDataImages(imgResp)) =>
        /\ imgOutScript = UndefinedValue
        /\ imgResp.image = Absent =>
              imgOut = Throws("Could not parse image URL from response")
        /\ imgResp.image # Absent => imgOut = Value(DataUri(imgResp.image))
        /\ imgOut # imgOutScript

C26_Witness ==
    /\ BothNormalized
    /\ NoUrlDataImages(imgResp)
    /\ imgResp.image = Absent
    /\ imgOutScript = UndefinedValue
    /\ imgOut.kind = "throw"

(***************************************************************************)
(* The card scripts: handleImageUpload and createCard, in the variant of   *)
(* src/script.js and in the variant of the card script in part_000         *)
(***************************************************************************)

MaxClicks == 2
MaxUploads == 2

Variants == {"script", "part000"}

\* what the user may have typed into #apiKeyInput
KeyInputs == {"", " ", "k"}

\* String.prototype.trim on those values
Trim(value) == IF value = " " THEN "" ELSE value

\* !apiKey, with apiKey = value.trim()
KeyMissing_noTrim(value) == value = ""
KeyMissing(value) == Trim(value) = ""

\* !userImage.src
ImageMissing(src) == src = 0

\* the outcome of the edit request for the variant: a response handled by
\* its generateStylizedImage, or fetch rejecting
EditOutcomes(v) ==
    { IF v = "script" THEN GenerateStylizedImageScript(resp) ELSE GenerateStylizedImage(resp) :
        resp \in EditResponses } \cup {Throws("network")}

\* a file is chosen: handleImageUpload starts a FileReader
ChooseFile ==
    /\ uploads < MaxUploads
    /\ uploads' = uploads + 1
    /\ upPending' = upPending \cup {uploads + 1}
    /\ UNCHANGED <<variant, apiKeyInput, userSrc, userLoading, thumbSrc, btnDisabled, cPc,
                   clicks, cardRequests, alerts, greetingText, editSrc, genResult, card, genImage>>

\* reader.onload: userImage.onload is installed and userImage.src assigned
FileRead ==
    \E n \in upPending :
        /\ upPending' = upPending \ {n}
        /\ userSrc' = n
        /\ userLoading' = n
        /\ UNCHANGED <<variant, apiKeyInput, uploads, thumbSrc, btnDisabled, cPc, clicks,
                       cardRequests, alerts, greetingText, editSrc, genResult, card, genImage>>

\* userImage.onload: userImage holds the new picture, and src/script.js
\* sets the thumbnail to it
UserImageLoaded ==
    /\ userLoading # 0
    /\ userLoading' = 0
    /\ thumbSrc' = userLoading
    /\ UNCHANGED <<variant, apiKeyInput, userSrc, upPending, uploads, btnDisabled, cPc,
                   clicks, cardRequests, alerts, greetingText, editSrc, genResult, card, genImage>>

\* the catch block of createCard, and in part_000 the finally block
CatchError_noFinally ==
    /\ alerts' = Append(alerts, "error")
    /\ btnDisabled' = (variant = "part000" /\ btnDisabled)
    /\ cPc' = "idle"
CatchError ==
    /\ alerts' = Append(alerts, "error")
    /\ btnDisabled' = FALSE
    /\ cPc' = "idle"

\* a click on the enabled generate button: createCard up to its first await
ClickGenerate ==
    /\ ~btnDisabled
    /\ clicks < MaxClicks
    /\ clicks' = clicks + 1
    /\ IF KeyMissing(apiKeyInput)
       THEN /\ alerts' = Append(alerts, "key")
            /\ UNCHANGED <<btnDisabled, cPc, cardRequests, editSrc>>
       ELSE IF ImageMissing(userSrc)
       THEN /\ alerts' = Append(alerts, "image")
            /\ UNCHANGED <<btnDisabled, cPc, cardRequests, editSrc>>
       ELSE /\ btnDisabled' = TRUE
            /\ UNCHANGED alerts
            /\ IF variant = "script"
               THEN /\ editSrc' = userSrc
                    /\ cardRequests' = Append(cardRequests, "edit")
                    /\ cPc' = "edit"
               ELSE /\ cardRequests' = Append(cardRequests, "greeting")
                    /\ cPc' = "greeting"
                    /\ UNCHANGED editSrc
    /\ UNCHANGED <<variant, apiKeyInput, userSrc, upPending, uploads, userLoading, thumbSrc,
                   greetingText, genResult, card, genImage>>

\* part_000: generateGreeting returns and generateStylizedImage is called
GreetingReturns ==
    /\ cPc = "greeting"
    /\ greetingText' = "g"
    /\ editSrc' = userSrc
    /\ cardRequests' = Append(cardRequests, "edit")
    /\ cPc' = "edit"
    /\ UNCHANGED <<variant, apiKeyInput, userSrc, upPending, uploads, userLoading, thumbSrc,
                   btnDisabled, clicks, alerts, genResult, card, genImage>>

\* part_000: generateGreeting throws (fetch rejects, not ok, no choices)
GreetingThrows ==
    /\ cPc = "greeting"
    /\ CatchError
    /\ UNCHANGED <<variant, apiKeyInput, userSrc, upPending, uploads, userLoading, thumbSrc,
                   clicks, cardRequests, greetingText, editSrc, genResult, card, genImage>>

\* generateStylizedImage returns: generatedImage.src is assigned
EditReturns_reenables ==
    /\ cPc = "edit"
    /\ \E out \in EditOutcomes(variant) :
          /\ out.kind = "value"
          /\ genResult' = out
    /\ genImage' = "loading"
    /\ cPc' = "loading"
    /\ btnDisabled' = FALSE
    /\ UNCHANGED <<variant, apiKeyInput, userSrc, upPending, uploads, userLoading, thumbSrc,
                   clicks, cardRequests, alerts, greetingText, editSrc, card>>
EditReturns ==
    /\ cPc = "edit"
    /\ \E out \in EditOutcomes(variant) :
          /\ out.kind = "value"
          /\ genResult' = out
    /\ genImage' = "loading"
    /\ cPc' = "loading"
    /\ UNCHANGED <<variant, apiKeyInput, userSrc, upPending, uploads, userLoading, thumbSrc,
                   btnDisabled, clicks, cardRequests, alerts, greetingText, editSrc, card>>

\* generateStylizedImage throws
EditThrows ==
    /\ cPc = "edit"
    /\ \E out \in EditOutcomes(variant) :
          /\ out.kind = "throw"
          /\ genResult' = out
    /\ CatchError
    /\ UNCHANGED <<variant, apiKeyInput, userSrc, upPending, uploads, userLoading, thumbSrc,
                   clicks, cardRequests, greetingText, editSrc, card, genImage>>

\* generatedImage.onload: the card is drawn and the button re-enabled
GeneratedImageLoads_snapshot ==
    /\ cPc = "loading"
    /\ genResult.ref # <<>>
    /\ card' = [gen |-> genResult.ref, thumb |-> editSrc, greeting |-> greetingText]
    /\ genImage' = "loaded"
    /\ btnDisabled' = FALSE
    /\ cPc' = "idle"
    /\ UNCHANGED <<variant, apiKeyInput, userSrc, upPending, uploads, userLoading, thumbSrc,
                   clicks, cardRequests, alerts, greetingText, editSrc, genResult>>
GeneratedImageLoads ==
    /\ cPc = "loading"
    /\ genResult.ref # <<>>
    /\ card' = [gen |-> genResult.ref, thumb |-> thumbSrc, greeting |-> greetingText]
    /\ genImage' = "loaded"
    /\ btnDisabled' = FALSE
    /\ cPc' = "idle"
    /\ UNCHANGED <<variant, apiKeyInput, userSrc, upPending, uploads, userLoading, thumbSrc,
                   clicks, cardRequests, alerts, greetingText, editSrc, genResult>>

\* the generated image fails to load: part_000 rejects into the catch block,
\* src/script.js has installed no onerror handler
GeneratedImageFails_resolves ==
    /\ cPc = "loading"
    /\ genImage' = "failed"
    /\ card' = [gen |-> genResult.ref, thumb |-> thumbSrc, greeting |-> greetingText]
    /\ btnDisabled' = FALSE
    /\ cPc' = "idle"
    /\ UNCHANGED <<variant, apiKeyInput, userSrc, upPending, uploads, userLoading, thumbSrc,
                   clicks, cardRequests, alerts, greetingText, editSrc, genResult>>
GeneratedImageFails ==
    /\ cPc = "loading"
    /\ genImage' = "failed"
    /\ IF variant = "script"
       THEN /\ cPc' = "idle"
            /\ UNCHANGED <<alerts, btnDisabled>>
       ELSE CatchError
    /\ UNCHANGED <<variant, apiKeyInput, userSrc, upPending, uploads, userLoading, thumbSrc,
                   clicks, cardRequests, greetingText, editSrc, genResult, card>>

CardInit ==
    /\ variant \in Variants
    /\ apiKeyInput \in KeyInputs
    /\ userSrc = 0
    /\ upPending = {}
    /\ uploads = 0
    /\ userLoading = 0
    /\ thumbSrc = 0
    /\ btnDisabled = FALSE
    /\ cPc = "idle"
    /\ clicks = 0
    /\ cardRequests = <<>>
    /\ alerts = <<>>
    /\ greetingText = "none"
    /\ editSrc = 0
    /\ genResult = Pending
    /\ card = NoCard
    /\ genImage = "none"
    /\ RetryIdle
    /\ StreamIdle
    /\ ConvIdle
    /\ ImageIdle
    /\ OrchIdle
    /\ DecIdle
    /\ QueueIdle

NextCard ==
    \/ ChooseFile /\ UNCHANGED <<retryVars, streamVars, convVars, imageVars, orchVars, decVars, queueVars>>
    \/ FileRead /\ UNCHANGED <<retryVars, streamVars, convVars, imageVars, orchVars, decVars, queueVars>>
    \/ UserImageLoaded /\ UNCHANGED <<retryVars, streamVars, convVars, imageVars, orchVars, decVars, queueVars>>
    \/ ClickGenerate /\ UNCHANGED <<retryVars, streamVars, convVars, imageVars, orchVars, decVars, queueVars>>
    \/ GreetingReturns /\ UNCHANGED <<retryVars, streamVars, convVars, imageVars, orchVars, decVars, queueVars>>
    \/ GreetingThrows /\ UNCHANGED <<retryVars, streamVars, convVars, imageVars, orchVars, decVars, queueVars>>
    \/ EditReturns /\ UNCHANGED <<retryVars, streamVars, convVars, imageVars, orchVars, decVars, queueVars>>
    \/ EditThrows /\ UNCHANGED <<retryVars, streamVars, convVars, imageVars, orchVars, decVars, queueVars>>
    \/ GeneratedImageLoads /\ UNCHANGED <<retryVars, streamVars, convVars, imageVars, orchVars, decVars, queueVars>>
    \/ GeneratedImageFails /\ UNCHANGED <<retryVars, streamVars, convVars, imageVars, orchVars, decVars, queueVars>>

SpecCard == CardInit /\ [][NextCard]_vars

\* C20: in both variants a click with an empty API key or with no source
\* image only raises the alert: no request is issued, the button is not
\* disabled and no run is started that could issue one later.
C20_MissingInputSurfaced ==
    [][(clicks' = clicks + 1 /\ (apiKeyInput \in {"", " "} \/ userSrc = 0)) =>
          /\ cardRequests' = cardRequests
          /\ btnDisabled' = FALSE
          /\ cPc' = "idle"
          /\ Len(alerts') = Len(alerts) + 1
          /\ Last(alerts') = (IF apiKeyInput \in {"", " "} THEN "key" ELSE "image")
      ]_vars

C20_Witness ==
    /\ clicks = 2
    /\ alerts = <<"image", "image">>
    /\ apiKeyInput = "k"
    /\ userSrc = 0
    /\ upPending # {}
    /\ cardRequests = <<>>
    /\ ~btnDisabled
    /\ cPc = "idle"

\* C21: in src/script.js every run that disabled the generate button has
\* re-enabled it once the run is over (nothing of the run is pending any
\* more), whether the run succeeded, the edit request failed or the
\* generated image failed to load.
C21_ScriptButtonReenabled ==
    (variant = "script" /\ btnDisabled) => cPc # "idle"

\* C22: in part_000 the generate button is disabled only while a run is in
\* progress: every run that disabled it has re-enabled it when it ends, on
\* success, on a failed greeting or edit request, on an unrecognized
\* response shape and on a generated image that fails to load.
C22_Part000ButtonReenabled ==
    (variant = "part000" /\ btnDisabled) => cPc # "idle"

\* a part_000 run whose generated image failed to load has ended
C22_Witness ==
    /\ variant = "part000"
    /\ clicks = 1
    /\ cardRequests = <<"greeting", "edit">>
    /\ genResult.kind = "value"
    /\ alerts = <<"error">>
    /\ cPc = "idle"
    /\ ~btnDisabled

\* C27: in part_000 the edit request is issued only by the step in which the
\* greeting request of the run succeeded, the card is drawn only by the step
\* in which the generated image finishes loading, and when the generated
\* image fails to load nothing is drawn and the run ends on the failure path.
C27_Part000StepOrder ==
    [][variant = "part000" =>
          /\ (cardRequests' # cardRequests /\ Last(cardRequests') = "edit") =>
                /\ cPc = "greeting"
                /\ Last(cardRequests) = "greeting"
                /\ greetingText' = "g"
          /\ card' # card =>
                /\ genImage = "loading"
                /\ genImage' = "loaded"
                /\ card'.gen = genResult.ref
          /\ (genImage = "loading" /\ genImage' = "failed") =>
                /\ card' = card
                /\ alerts' = Append(alerts, "error")
                /\ cPc' = "idle"
      ]_vars

\* a part_000 run whose greeting and edit requests succeeded and whose
\* generated image failed to load: no card was drawn
C27_Witness ==
    /\ variant = "part000"
    /\ cardRequests = <<"greeting", "edit">>
    /\ greetingText = "g"
    /\ genImage = "failed"
    /\ card = NoCard
    /\ alerts = <<"error">>

\* C35: an upload is not blocked by a run of createCard: a photo that
\* finishes loading while the edit request or the image load is pending
\* becomes the thumbnail and leaves the run and the picture it sent alone,
\* and the card is drawn with the thumbnail of that moment, so thumbnail and
\* generated image can come from different uploads.
C35_ThumbnailFollowsLatestUpload ==
    [][/\ (cPc \in {"edit", "loading"} /\ userLoading # 0 /\ userLoading' = 0) =>
             /\ thumbSrc' = userLoading
             /\ editSrc' = editSrc
             /\ cPc' = cPc
             /\ genResult' = genResult
       /\ (genImage = "loading" /\ genImage' = "loaded") =>
             /\ card'.thumb = thumbSrc
             /\ card'.gen = genResult.ref
             /\ editSrc' = editSrc
      ]_vars

\* the card shows the second upload next to an image generated from the first
C35_Witness ==
    /\ variant = "part000"
    /\ clicks = 1
    /\ editSrc = 1
    /\ genImage = "loaded"
    /\ card.thumb = 2
    /\ card.gen # <<>>

C35_WitnessScript ==
    /\ variant = "script"
    /\ clicks = 1
    /\ editSrc = 1
    /\ genImage = "loaded"
    /\ card.thumb = 2
    /\ card.gen # <<>>

\* C36: with createCard started only by clicks on the enabled button at most
\* one run is in flight: every request is issued with the button disabled,
\* the button stays disabled while a request or the image load of the run
\* is pending, it is re-enabled only by a step that ends the run, and so a
\* click never finds a run in flight.
C36_SingleRunInFlight ==
    [][/\ Len(cardRequests') > Len(cardRequests) => btnDisabled'
       /\ cPc' # "idle" => btnDisabled'
       /\ (btnDisabled /\ ~btnDisabled') => (cPc # "idle" /\ cPc' = "idle")
       /\ clicks' = clicks + 1 => (cPc = "idle" /\ ~btnDisabled)
      ]_vars

\* a second run in flight after the first one has shown its card
C36_Witness ==
    /\ clicks = 2
    /\ card # NoCard
    /\ cPc = "loading"
    /\ genImage = "loading"
    /\ btnDisabled

(***************************************************************************)
(* VeniceOrchestrator                                                      *)
(***************************************************************************)

\* what the server may answer; the response records the model of the
\* request it answers
ReplyTexts == {"x", "y"}

ResponseFor(m, text) == [for |-> m, text |-> text]

\* why getResponse may reject: fetch rejects, response.json() rejects,
\* data.choices[0] is missing
RejectCauses == {"fetch", "json", "choices"}

\* models.map(model => this.getResponse(prompt, model)): each call runs up
\* to its fetch, so the requests are issued in the order of models
RequestsIssued == [i \in ModelIdx |-> models[i]]

\* Promise.all stores the value of the i-th promise at index i
StoreValue_push(values, i, v) ==
    [values EXCEPT ![Cardinality({k \in ModelIdx : values[k] # NoResponse}) + 1] = v]
StoreValue(values, i, v) == [values EXCEPT ![i] = v]

\* results.map((response, i) => ({ model: models[i], response }))
PairWithModels(results) ==
    [i \in ModelIdx |-> [model |-> models[i], response |-> results[i]]]

AllResolved(slots) == \A i \in ModelIdx : slots[i].st = "resolved"

\* analyzeWithMultipleModels up to await Promise.all
Analyze ==
    /\ oPc = "idle"
    /\ oSent' = RequestsIssued
    /\ oPc' = "waiting"
    /\ UNCHANGED <<oSlot, oValues, oOrder, oResult>>

\* the getResponse call of index i returns; when it is the last one
\* Promise.all resolves and analyzeWithMultipleModels returns
GetResponseReturns ==
    \E i \in ModelIdx, text \in ReplyTexts :
        /\ oPc \in {"waiting", "failed"}
        /\ oSlot[i].st = "pending"
        /\ oSlot' = [oSlot EXCEPT ![i] = [st |-> "resolved",
                                          resp |-> ResponseFor(oSent[i], text)]]
        /\ oValues' = StoreValue(oValues, i, ResponseFor(oSent[i], text))
        /\ oOrder' = Append(oOrder, i)
        /\ IF oPc = "waiting" /\ AllResolved(oSlot')
           THEN /\ oPc' = "done"
                /\ oResult' = PairWithModels(oValues')
           ELSE UNCHANGED <<oPc, oResult>>
        /\ UNCHANGED oSent

\* the getResponse call of index i throws: Promise.all rejects at the first
\* rejection and analyzeWithMultipleModels throws
GetResponseThrows_settles ==
    \E i \in ModelIdx, cause \in RejectCauses :
        /\ oPc \in {"waiting", "failed"}
        /\ oSlot[i].st = "pending"
        /\ oSlot' = [oSlot EXCEPT ![i] = [st |-> "rejected",
                                          resp |-> [for |-> oSent[i], text |-> cause]]]
        /\ oOrder' = Append(oOrder, i)
        /\ IF \A k \in ModelIdx : oSlot'[k].st # "pending"
           THEN /\ oPc' = "done"
                /\ oResult' = PairWithModels(oValues)
           ELSE UNCHANGED <<oPc, oResult>>
        /\ UNCHANGED <<oSent, oValues>>
GetResponseThrows ==
    \E i \in ModelIdx, cause \in RejectCauses :
        /\ oPc \in {"waiting", "failed"}
        /\ oSlot[i].st = "pending"
        /\ oSlot' = [oSlot EXCEPT ![i] = [st |-> "rejected",
                                          resp |-> [for |-> oSent[i], text |-> cause]]]
        /\ oOrder' = Append(oOrder, i)
        /\ oPc' = "failed"
        /\ UNCHANGED <<oSent, oValues, oResult>>

OrchInit ==
    /\ OrchIdle
    /\ RetryIdle
    /\ StreamIdle
    /\ ConvIdle
    /\ ImageIdle
    /\ CardIdle
    /\ DecIdle
    /\ QueueIdle

NextOrch ==
    \/ Analyze /\ UNCHANGED <<retryVars, streamVars, convVars, imageVars, cardVars, decVars, queueVars>>
    \/ GetResponseReturns /\ UNCHANGED <<retryVars, streamVars, convVars, imageVars, cardVars, decVars, queueVars>>
    \/ GetResponseThrows /\ UNCHANGED <<retryVars, streamVars, convVars, imageVars, cardVars, decVars, queueVars>>

SpecOrch == OrchInit /\ [][NextOrch]_vars

\* C23: the per-model calls run concurrently (all requests are issued before
\* any call completes), and for every completion order entry i of the
\* result pairs models[i] with the response of the request for models[i].
C23_ResultsCorrelatedByIndex ==
    /\ oOrder # <<>> => oSent = models
    /\ oPc = "done" =>
          /\ Len(oResult) = Len(models)
          /\ \A i \in ModelIdx :
                /\ oResult[i].model = models[i]
                /\ oResult[i].response.for = models[i]
                /\ oResult[i].response = oSlot[i].resp

\* the calls completed in another order than they were issued
C23_Witness ==
    /\ oPc = "done"
    /\ oOrder = <<3, 1, 2>>
    /\ oResult[1].response.text = "x"
    /\ oResult[3].response.text = "y"

AnyRejected == \E i \in ModelIdx : oSlot[i].st = "rejected"

\* C37: when any of the per-model calls fails the whole call fails and
\* returns nothing, whatever the other calls do and in whatever order the
\* calls complete; it returns results only when all calls succeeded.
C37_AllOrNothing ==
    /\ AnyRejected => (oPc = "failed" /\ oResult = <<>>)
    /\ oPc = "failed" => AnyRejected
    /\ oPc = "done" => (AllResolved(oSlot) /\ Len(oResult) = Len(models))
    /\ oPc \in {"idle", "waiting"} => oResult = <<>>

\* the third call failed between the successes of the two others
C37_Witness ==
    /\ oPc = "failed"
    /\ oOrder = <<1, 3, 2>>
    /\ oSlot[1].st = "resolved"
    /\ oSlot[2].st = "resolved"
    /\ oSlot[3].st = "rejected"
    /\ oResult = <<>>

(***************************************************************************)
(* The decoders of generateResponse (app template) and of                  *)
(* VeniceChat.sendMessage: each chunk is split and decoded on its own      *)
(***************************************************************************)

Decoders == {"generateResponse", "sendMessage"}

\* what the server sends: newline-terminated lines
ServerStreams ==
    { Flatten(ls) : ls \in UNION { [1..n -> LineKinds] : n \in 0..MaxLines } }

\* String.prototype.trim
RECURSIVE TrimStart(_)
TrimStart(t) ==
    IF t # <<>> /\ Head(t) \in Whitespace THEN TrimStart(Tail(t)) ELSE t

RECURSIVE TrimEnd(_)
TrimEnd(t) ==
    IF t # <<>> /\ t[Len(t)] \in Whitespace THEN TrimEnd(SubSeq(t, 1, Len(t) - 1)) ELSE t

TrimText(t) == TrimEnd(TrimStart(t))

\* line => line.trim().startsWith('data: ')
IsDataLine(line) == StartsWithData(TrimText(line))

\* chunk.split('\n').filter(...)
RECURSIVE Filter(_)
Filter(ls) ==
    IF ls = <<>> THEN <<>>
    ELSE (IF IsDataLine(Head(ls)) THEN <<Head(ls)>> ELSE <<>>) \o Filter(Tail(ls))

\* index of the first occurrence of pat in t, 0 when there is none
IndexOf(t, pat) ==
    IF \E i \in 1..(Len(t) - Len(pat) + 1) : SubSeq(t, i, i + Len(pat) - 1) = pat
    THEN CHOOSE i \in 1..(Len(t) - Len(pat) + 1) :
            /\ SubSeq(t, i, i + Len(pat) - 1) = pat
            /\ \A j \in 1..(i - 1) : SubSeq(t, j, j + Len(pat) - 1) # pat
    ELSE 0

\* line.replace('data: ', '')
RemovePrefix(line) ==
    IF IndexOf(line, DataPrefix) = 0 THEN line
    ELSE SubSeq(line, 1, IndexOf(line, DataPrefix) - 1)
            \o SubSeq(line, IndexOf(line, DataPrefix) + Len(DataPrefix), Len(line))

\* the for loop over the data lines of one chunk, from line i on; on [DONE]
\* the loop continues with the next line
RECURSIVE DecodeLines(_, _, _)
DecodeLines(lines, i, acc) ==
    IF i > Len(lines) THEN acc
    ELSE LET data == RemovePrefix(lines[i])
         IN  IF IsDone(data)
             THEN DecodeLines(lines, i + 1,
                              [acc EXCEPT !.seen = TRUE, !.status = "Complete"])
             ELSE IF JsonParses(data)
             THEN DecodeLines(lines, i + 1,
                              [acc EXCEPT !.text = @ \o DeltaContent(data),
                                          !.late = @ + (IF acc.seen THEN 1 ELSE 0)])
             ELSE DecodeLines(lines, i + 1,
                              [acc EXCEPT !.late = @ + (IF acc.seen THEN 1 ELSE 0)])

\* fetch resolves and the first read is issued
DecoderOpen ==
    /\ uPc = "start"
    /\ uPc' = "reading"
    /\ uStatus' = IF uWhich = "generateResponse" THEN "Generating..." ELSE uStatus
    /\ UNCHANGED <<uWhich, uStream, uPos, uText, uSeenDone, uLate>>

\* reader.read() resolves with a chunk of n characters: one pass of the loop
DecoderReadChunk ==
    /\ uPc = "reading"
    /\ uPos < Len(uStream)
    /\ \E n \in 1..(Len(uStream) - uPos) :
       \E r \in {DecodeLines(Filter(Split(SubSeq(uStream, uPos + 1, uPos + n))), 1,
                             [text |-> uText, seen |-> uSeenDone, late |-> uLate,
                              status |-> uStatus])} :
          /\ uPos' = uPos + n
          /\ uText' = r.text
          /\ uSeenDone' = r.seen
          /\ uLate' = r.late
          /\ uStatus' = IF uWhich = "generateResponse" THEN r.status ELSE uStatus
    /\ UNCHANGED <<uWhich, uPc, uStream>>

\* reader.read() resolves with done
DecoderReadEnd ==
    /\ uPc = "reading"
    /\ uPos = Len(uStream)
    /\ uPc' = "ended"
    /\ UNCHANGED <<uWhich, uStream, uPos, uText, uStatus, uSeenDone, uLate>>

\* fetch or reader.read() rejects: the catch block replaces the text
DecoderFails ==
    /\ uPc \in {"start", "reading"}
    /\ uPc' = "failed"
    /\ uText' = <<"E", "r", "r", "o", "r">>
    /\ uStatus' = IF uWhich = "generateResponse" THEN "Error" ELSE uStatus
    /\ UNCHANGED <<uWhich, uStream, uPos, uSeenDone, uLate>>

DecInit ==
    /\ uWhich \in Decoders
    /\ uPc = "start"
    /\ uStream \in ServerStreams
    /\ uPos = 0
    /\ uText = <<>>
    /\ uStatus = "Ready"
    /\ uSeenDone = FALSE
    /\ uLate = 0
    /\ RetryIdle
    /\ StreamIdle
    /\ ConvIdle
    /\ ImageIdle
    /\ CardIdle
    /\ OrchIdle
    /\ QueueIdle

NextDec ==
    \/ DecoderOpen /\ UNCHANGED <<retryVars, streamVars, convVars, imageVars, cardVars, orchVars, queueVars>>
    \/ DecoderReadChunk /\ UNCHANGED <<retryVars, streamVars, convVars, imageVars, cardVars, orchVars, queueVars>>
    \/ DecoderReadEnd /\ UNCHANGED <<retryVars, streamVars, convVars, imageVars, cardVars, orchVars, queueVars>>
    \/ DecoderFails /\ UNCHANGED <<retryVars, streamVars, convVars, imageVars, cardVars, orchVars, queueVars>>

SpecDec == DecInit /\ [][NextDec]_vars

\* C25: however the server's stream is cut into chunks, when the stream has
\* ended the accumulated text is the concatenation of the deltas of the data
\* frames sent before [DONE], and no frame was processed after [DONE].
C25_UnbufferedDecodersExact ==
    /\ uPc = "ended" => uText = ExpectedDeltas(uStream)
    /\ uLate = 0

\* what does hold: the text never has more than the deltas of all frames
C25_TextWithinFrames ==
    Len(uText) <= Len(ContentsOf(AllLines(uStream))) \/ uPc = "failed"

(***************************************************************************)
(* VeniceAPIClient                                                         *)
(***************************************************************************)

\* how a makeRequest call may settle
Outcomes == {"result", "error"}

\* processQueue goes past `if (this.processing || this.requestQueue.length === 0) return`
CanStart_noFlag(proc, queue) == queue # <<>>
CanStart(proc, queue) == ~proc /\ queue # <<>>

\* the finally block schedules the next processQueue whatever the outcome
SchedulesNext_onSuccess(kind) == kind = "result"
SchedulesNext(kind) == TRUE

\* the request whose resolve / reject the completion of request r calls
SettleTarget_head(r, queue) == IF queue # <<>> THEN Head(queue) ELSE r
SettleTarget(r, queue) == r

\* processQueue, called with the queue as it is then
ProcessQueue_pop(queue) ==
    IF CanStart(processing, queue)
    THEN /\ processing' = TRUE
         /\ requestQueue' = SubSeq(queue, 1, Len(queue) - 1)
         /\ inFlight' = inFlight \cup {queue[Len(queue)]}
         /\ started' = Append(started, queue[Len(queue)])
    ELSE /\ requestQueue' = queue
         /\ UNCHANGED <<processing, inFlight, started>>
ProcessQueue(queue) ==
    IF CanStart(processing, queue)
    THEN /\ processing' = TRUE
         /\ requestQueue' = Tail(queue)
         /\ inFlight' = inFlight \cup {Head(queue)}
         /\ started' = Append(started, Head(queue))
    ELSE /\ requestQueue' = queue
         /\ UNCHANGED <<processing, inFlight, started>>

\* queueRequest: push, then processQueue
QueueRequest ==
    /\ queued < MaxRequests
    /\ queued' = queued + 1
    /\ ProcessQueue(Append(requestQueue, queued + 1))
    /\ UNCHANGED <<timers, completions, settled>>

\* the makeRequest call of request r settles: resolve or reject, then finally
RequestCompletes ==
    \E r \in inFlight, kind \in Outcomes :
        /\ inFlight' = inFlight \ {r}
        /\ settled' = [settled EXCEPT ![SettleTarget(r, requestQueue)] =
                          [n |-> @.n + 1, of |-> r, kind |-> kind]]
        /\ processing' = FALSE
        /\ completions' = completions + 1
        /\ timers' = IF SchedulesNext(kind) THEN timers \cup {completions + 1} ELSE timers
        /\ UNCHANGED <<requestQueue, queued, started>>

\* the oldest 100 ms timer fires: processQueue
TimerFires ==
    /\ timers # {}
    /\ \E t \in timers :
          /\ \A u \in timers : t <= u
          /\ timers' = timers \ {t}
    /\ ProcessQueue(requestQueue)
    /\ UNCHANGED <<queued, completions, settled>>

QueueInit ==
    /\ QueueIdle
    /\ RetryIdle
    /\ StreamIdle
    /\ ConvIdle
    /\ ImageIdle
    /\ CardIdle
    /\ OrchIdle
    /\ DecIdle

NextQueue ==
    \/ QueueRequest /\ UNCHANGED <<retryVars, streamVars, convVars, imageVars, cardVars, orchVars, decVars>>
    \/ RequestCompletes /\ UNCHANGED <<retryVars, streamVars, convVars, imageVars, cardVars, orchVars, decVars>>
    \/ TimerFires /\ UNCHANGED <<retryVars, streamVars, convVars, imageVars, cardVars, orchVars, decVars>>

SpecQueue == QueueInit /\ [][NextQueue]_vars

\* timers fire and requests settle
SpecQueueFair ==
    /\ SpecQueue
    /\ WF_vars(TimerFires /\ UNCHANGED <<retryVars, streamVars, convVars, imageVars, cardVars, orchVars, decVars>>)
    /\ WF_vars(RequestCompletes /\ UNCHANGED <<retryVars, streamVars, convVars, imageVars, cardVars, orchVars, decVars>>)

\* C28: the 100 ms timer is a buffer between requests: whenever a request
\* starts after another one has completed, the timer scheduled at the latest
\* completion has fired, also when queueRequest is called during the gap.
C28_TimerSeparatesRequests ==
    [][(Len(started') > Len(started) /\ completions > 0) =>
          completions \notin timers']_vars

\* what the code does: a queueRequest call during the gap starts its request
\* at once, with the timer of the last completion still pending
C28_StartsInsideGap ==
    /\ completions = 1
    /\ timers = {1}
    /\ Len(started) = 2
    /\ inFlight = {2}

\* C29: at most one makeRequest call is in flight at any time, and one is in
\* flight exactly while processing is set.
C29_OneInFlight ==
    /\ Cardinality(inFlight) <= 1
    /\ processing <=> inFlight # {}

\* a request in flight, two waiting behind it and a timer still to fire
C29_Witness ==
    /\ Cardinality(inFlight) = 1
    /\ Len(requestQueue) >= 2
    /\ timers # {}

Started(r) == \E i \in 1..Len(started) : started[i] = r

\* a settled promise was settled once, by its own makeRequest call
SettledByOwn ==
    \A r \in RequestIds :
        /\ settled[r].n <= 1
        /\ settled[r].n = 1 => (settled[r].of = r /\ Started(r) /\ r \notin inFlight)
        /\ settled[r].n = 0 => settled[r] = Unsettled

\* C30: every request passed to queueRequest is eventually started and its
\* promise is settled exactly once, with the result or the error of its own
\* makeRequest call; this holds as well behind a request that failed.
C30_EveryRequestSettled ==
    /\ []SettledByOwn
    /\ \A r \in RequestIds :
          (queued >= r) ~> (Started(r) /\ settled[r].n = 1)

\* the first request failed and the requests queued behind it were settled
C30_Witness ==
    /\ settled[1].kind = "error"
    /\ settled[2].kind = "result"
    /\ settled[3].n = 1
    /\ requestQueue = <<>>

\* C31: requests are started in the order of their queueRequest calls: the
\* i-th makeRequest call is for the i-th request queued, and the requests
\* still waiting are the later ones, in order.
C31_StartedInQueueOrder ==
    /\ \A i \in 1..Len(started) : started[i] = i
    /\ \A i \in 1..Len(requestQueue) : requestQueue[i] = Len(started) + i

\* three requests started while a fourth waits
C31_Witness ==
    /\ started = <<1, 2, 3>>
    /\ requestQueue = <<4>>
    /\ inFlight = {3}

=============================================================================
